---- MODULE Spec2Model ----
(***************************************************************************)
(* The Health Line (src/streamlit_app.py): a Streamlit script over one     *)
(* SQLite file.  Every widget interaction of a browser session reruns the  *)
(* script; the tables are shared by all sessions, st.session_state and the *)
(* widget state are per session.  Every run opens its own connection;     *)
(* locked tells that the connection of a finished run still holds the      *)
(* write lock of the file.                                                 *)
(*                                                                         *)
(* Texts are sequences of one-character strings, so that strip(), split(), *)
(* isoformat() and SQL text comparison are computed character by           *)
(* character.  Dates are day ordinals (0 = 2025-01-01).                    *)
(***************************************************************************)
EXTENDS Integers, Sequences, FiniteSets, TLC

VARIABLES patients, doctors, appointments, prescriptions, seq,
          session, confirm, pc, req, out, now, locked

vars == <<patients, doctors, appointments, prescriptions, seq,
          session, confirm, pc, req, out, now, locked>>

tables == <<patients, doctors, appointments, prescriptions, seq>>

(***************************************************************************)
(* Bounds of the model.                                                    *)
(***************************************************************************)
MaxAppointments == 2
MaxPrescriptions == 1
MaxTicks == 1
StartDay == 8

Sessions == {"s1", "s2"}

(***************************************************************************)
(* Text.                                                                   *)
(***************************************************************************)
\* The characters the model uses, in ascending code-point order.
Alphabet == <<" ", "!", "(", ")", "-", ".",
              "0", "1", "2", "3", "4", "5", "6", "7", "8", "9", ":",
              "D", "T", "a", "b", "c", "d", "e", "f", "r", "x">>

Code(ch) == CHOOSE i \in 1..Len(Alphabet) : Alphabet[i] = ch

DigitChars == <<"0", "1", "2", "3", "4", "5", "6", "7", "8", "9">>

IsDigit(ch) == ch \in {"0", "1", "2", "3", "4", "5", "6", "7", "8", "9"}

DigitValue(ch) == (CHOOSE i \in 1..10 : DigitChars[i] = ch) - 1

\* str.isdigit(): non-empty and every character a digit.
AllDigits(t) == Len(t) > 0 /\ \A i \in 1..Len(t) : IsDigit(t[i])

RECURSIVE Strip(_)
\* str.strip(): leading and trailing whitespace removed.
Strip(t) ==
    IF t = <<>> THEN <<>>
    ELSE IF Head(t) = " " THEN Strip(Tail(t))
    ELSE IF t[Len(t)] = " " THEN Strip(SubSeq(t, 1, Len(t) - 1))
    ELSE t

RECURSIVE Str(_)
\* str(n) of a natural number: its decimal digits.
Str(n) == IF n < 10 THEN <<DigitChars[n + 1]>>
          ELSE Str(n \div 10) \o <<DigitChars[(n % 10) + 1]>>

RECURSIVE Pad(_, _)
\* Zero-padded decimal of width w (the %02d / %04d fields of isoformat()).
Pad(n, w) == IF w = 0 THEN <<>>
             ELSE Pad(n \div 10, w - 1) \o <<DigitChars[(n % 10) + 1]>>

RECURSIVE ParseInt(_)
\* int(text) of a string of decimal digits.
ParseInt(t) == IF t = <<>> THEN 0
               ELSE 10 * ParseInt(SubSeq(t, 1, Len(t) - 1)) + DigitValue(t[Len(t)])

StartsWith(t, p) == Len(t) >= Len(p) /\ SubSeq(t, 1, Len(p)) = p

RECURSIVE SplitFirst(_, _)
\* text.split(sep)[0]: the part of the text before the first occurrence of sep.
SplitFirst(t, sep) ==
    IF t = <<>> \/ StartsWith(t, sep) THEN <<>>
    ELSE <<Head(t)>> \o SplitFirst(Tail(t), sep)

RECURSIVE TextLessFrom(_, _, _)
TextLessFrom(a, b, i) ==
    IF i > Len(b) THEN FALSE
    ELSE IF i > Len(a) THEN TRUE
    ELSE IF a[i] = b[i] THEN TextLessFrom(a, b, i + 1)
    ELSE Code(a[i]) < Code(b[i])

\* Text comparison as SQLite's BINARY collation does it: by code point, a
\* proper prefix first.
TextLess(a, b) == TextLessFrom(a, b, 1)

(***************************************************************************)
(* Calendar (datetime.date).                                               *)
(***************************************************************************)
IsLeap(y) == (y % 4 = 0 /\ y % 100 # 0) \/ y % 400 = 0

DaysInYear(y) == IF IsLeap(y) THEN 366 ELSE 365

DaysInMonth(y, m) ==
    IF m = 2 THEN (IF IsLeap(y) THEN 29 ELSE 28)
    ELSE IF m \in {4, 6, 9, 11} THEN 30 ELSE 31

RECURSIVE YearOf(_, _)
YearOf(n, y) == IF n < DaysInYear(y) THEN <<y, n>> ELSE YearOf(n - DaysInYear(y), y + 1)

RECURSIVE MonthOf(_, _, _)
MonthOf(n, y, m) == IF n < DaysInMonth(y, m) THEN <<m, n + 1>>
                    ELSE MonthOf(n - DaysInMonth(y, m), y, m + 1)

\* The (year, month, day) of a day ordinal; ordinal 0 is 2025-01-01.
ToYMD(n) == LET yd == YearOf(n, 2025)
                md == MonthOf(yd[2], yd[1], 1)
            IN <<yd[1], md[1], md[2]>>

\* date.isoformat(): YYYY-MM-DD.
DateIso(n) == LET ymd == ToYMD(n)
              IN Pad(ymd[1], 4) \o <<"-">> \o Pad(ymd[2], 2) \o <<"-">> \o Pad(ymd[3], 2)

\* The same fields written without zero padding.
DateTimeIsoUnpadded(n, hm) ==
    LET ymd == ToYMD(n)
    IN Str(ymd[1]) \o <<"-">> \o Str(ymd[2]) \o <<"-">> \o Str(ymd[3]) \o <<"T">>
           \o Str(hm[1]) \o <<":">> \o Str(hm[2]) \o <<":", "0", "0">>

\* datetime.isoformat() of datetime.combine(date, time) with zero seconds.
DateTimeIso(n, hm) ==
    DateIso(n) \o <<"T">> \o Pad(hm[1], 2) \o <<":">> \o Pad(hm[2], 2) \o <<":", "0", "0">>

\* timedelta(days=30)
RefillDays == 30

(***************************************************************************)
(* The clock.  It is read at a few instants of each day.                   *)
(***************************************************************************)
DayInstants == <<<<0, 0>>, <<23, 59>>>>

InstantIndex(hm) == CHOOSE i \in 1..Len(DayInstants) : DayInstants[i] = hm

\* How many times the clock has advanced since the start (StartDay, 23:59).
Ticks(clock) ==
    (clock.date - StartDay) * Len(DayInstants) + InstantIndex(clock.hm) - Len(DayInstants)

NextInstant(clock) ==
    LET i == InstantIndex(clock.hm)
    IN IF i = Len(DayInstants) THEN [date |-> clock.date + 1, hm |-> DayInstants[1]]
       ELSE [date |-> clock.date, hm |-> DayInstants[i + 1]]

(***************************************************************************)
(* UTILS (lines 96-116).                                                   *)
(***************************************************************************)
\* hashlib.sha256(...).hexdigest(), taken to be collision-free: the digest
\* is a value that determines the password.
hash_password(password) == <<"sha256", password>>

\* A comparison that accepts every password.
check_password_any(password, hashed) == TRUE

check_password(password, hashed) == hash_password(password) = hashed

\* The characters of the model's alphabet that are in the string `special`.
SpecialChars == {"!", "(", ")", "-", ".", ":"}

password_policy(password) ==
    /\ Len(password) >= 6
    /\ \E i \in 1..Len(password) : IsDigit(password[i])
    /\ \E i \in 1..Len(password) : password[i] \in SpecialChars

\* not x.strip()
Blank(t) == Strip(t) = <<>>

(***************************************************************************)
(* Tables (create_tables).  A row is a record; dob and language of a       *)
(* patient are stored and never read again, and are left out.              *)
(***************************************************************************)
\* The column without its UNIQUE constraint.
PatientsUniqueOff(rows, id_number) == FALSE

\* id_number TEXT NOT NULL UNIQUE: the INSERT raises IntegrityError.
PatientsUnique(rows, id_number) == \E p \in rows : p.id_number = id_number

\* practice_number TEXT NOT NULL UNIQUE
DoctorsUnique(rows, practice_number) == \E d \in rows : d.practice_number = practice_number

\* INTEGER PRIMARY KEY AUTOINCREMENT: one more than the largest id the table
\* ever held (sqlite_sequence).
NextId(table) == seq[table] + 1

NoSession == [role |-> "none", user_id |-> 0, user_name |-> <<>>]

NoRequest == [doc_id |-> 0, time |-> <<>>, patient_id |-> 0, medication |-> <<>>,
              today |-> <<>>]

\* What a run showed last: the button that started it and the message
\* (st.success / st.error / st.warning / st.info) it ended with.
Shown(op, kind) == [op |-> op, kind |-> kind]

(***************************************************************************)
(* What the users type.                                                    *)
(***************************************************************************)
Rep(ch, n) == [i \in 1..n |-> ch]

GoodName == <<"a", "b", " ">>

GoodPassword == <<"a", "b", "c", "d", "1", "!">>

\* Passwords that fail password_policy: no digit and no special character;
\* too short.
BadPasswords == {<<"a", "b", "c", "d", "e", "f">>, <<"a", "1", "!">>}

\* Patient registration forms <<name, id_number, password>>: one field
\* blank, a password against the policy, and good forms for two ID numbers,
\* one of them also typed with spaces around it.
PatientForms ==
    {<<<<" ">>, <<"7">>, GoodPassword>>, <<GoodName, <<>>, GoodPassword>>,
     <<GoodName, <<"7">>, <<" ">>>>}
    \cup {<<GoodName, <<"7">>, pw>> : pw \in BadPasswords}
    \cup {<<GoodName, id, GoodPassword>> : id \in {<<"7">>, <<" ", "7", " ">>, <<"8">>}}

\* Patient login forms <<id_number, password>>.
PatientLogins ==
    {<<<<>>, GoodPassword>>, <<<<"7">>, <<" ">>>>, <<<<"7">>, <<"a", "b", "c", "d", "e", "f">>>>}
    \cup {<<id, GoodPassword>> : id \in {<<"7">>, <<" ", "7", " ">>, <<"8">>}}

GoodPractice == Rep("1", 13)

\* Doctor registration forms <<first_name, surname, work, practice, password>>.
DoctorForms ==
    {<<<<" ">>, <<"c">>, <<"d">>, GoodPractice, GoodPassword>>,
     <<GoodName, <<>>, <<"d">>, GoodPractice, GoodPassword>>,
     <<GoodName, <<"c">>, <<" ">>, GoodPractice, GoodPassword>>,
     <<GoodName, <<"c">>, <<"d">>, <<>>, GoodPassword>>,
     <<GoodName, <<"c">>, <<"d">>, GoodPractice, <<" ">>>>,
     <<GoodName, <<"c">>, <<"d">>, Rep("1", 12), GoodPassword>>,
     <<GoodName, <<"c">>, <<"d">>, Rep("1", 12) \o <<"x">>, GoodPassword>>,
     <<GoodName, <<"c">>, <<"d">>, GoodPractice, <<"a", "1", "!">>>>,
     <<GoodName, <<"c">>, <<"d">>, GoodPractice, GoodPassword>>,
     <<GoodName, <<"c">>, <<"d">>, <<" ">> \o GoodPractice, GoodPassword>>}

\* Doctor login forms <<practice, password>>.
DoctorLogins ==
    {<<<<>>, GoodPassword>>, <<GoodPractice, <<" ">>>>,
     <<GoodPractice, <<"a", "b", "c", "d", "e", "f">>>>,
     <<GoodPractice, GoodPassword>>, <<<<" ">> \o GoodPractice, GoodPassword>>,
     <<Rep("1", 12), GoodPassword>>}

Medications == {<<" ">>, <<"x", " ">>}

\* st.time_input("Time")
BookTimes == {<<9, 0>>}

\* st.date_input("Date", min_value=datetime.today().date())
BookDates(clock) == {clock.date}

Init ==
    /\ patients = {}
    /\ doctors = {}
    /\ appointments = {}
    /\ prescriptions = {}
    /\ seq = [t \in {"patients", "doctors", "appointments", "prescriptions"} |-> 0]
    /\ session = [s \in Sessions |-> NoSession]
    /\ confirm = [s \in Sessions |-> "absent"]
    /\ pc = [s \in Sessions |-> "idle"]
    /\ req = [s \in Sessions |-> NoRequest]
    /\ out = [s \in Sessions |-> Shown("none", "none")]
    /\ now = [date |-> StartDay, hm |-> <<23, 59>>]
    /\ locked = FALSE

\* A script run of session s may start: no run of s is under way.
Idle(s) == pc[s] = "idle"

\* "user_role" not in st.session_state
LoggedOut(s) == session[s].role = "none"

(***************************************************************************)
(* patient_register, "Register" clicked.                                   *)
(***************************************************************************)
PatientRegister(s, name, id_number, password) ==
    /\ Idle(s) /\ LoggedOut(s)
    /\ IF Blank(name) \/ Blank(id_number) \/ Blank(password)
          THEN /\ out' = [out EXCEPT ![s] = Shown("patient_register", "required")]
               /\ UNCHANGED <<patients, seq, locked>>
       ELSE IF ~password_policy(password)
          THEN /\ out' = [out EXCEPT ![s] = Shown("patient_register", "policy")]
               /\ UNCHANGED <<patients, seq, locked>>
       ELSE IF locked
          THEN /\ out' = [out EXCEPT ![s] = Shown("patient_register", "database")]
               /\ UNCHANGED <<patients, seq, locked>>
       ELSE IF PatientsUnique(patients, Strip(id_number))
          THEN /\ out' = [out EXCEPT ![s] = Shown("patient_register", "registered")]
               /\ locked' = TRUE
               /\ UNCHANGED <<patients, seq>>
       ELSE /\ patients' = patients \cup
                   {[id |-> NextId("patients"), full_name |-> Strip(name),
                     id_number |-> Strip(id_number),
                     password_hash |-> hash_password(password)]}
            /\ seq' = [seq EXCEPT !["patients"] = NextId("patients")]
            /\ out' = [out EXCEPT ![s] = Shown("patient_register", "success")]
            /\ UNCHANGED locked
    /\ UNCHANGED <<doctors, appointments, prescriptions, session, confirm, pc, req, now>>

(***************************************************************************)
(* patient_login, "Login" clicked.  A successful login ends with           *)
(* st.rerun(), which draws the dashboard.                                  *)
(***************************************************************************)
PatientLogin(s, id_number, password) ==
    /\ Idle(s) /\ LoggedOut(s)
    /\ IF Blank(id_number) \/ Blank(password)
          THEN /\ out' = [out EXCEPT ![s] = Shown("patient_login", "required")]
               /\ UNCHANGED session
       ELSE LET data == {p \in patients : p.id_number = Strip(id_number)}
            IN IF \E p \in data : check_password(password, p.password_hash)
                  THEN \E p \in data :
                         /\ session' = [session EXCEPT ![s] =
                                [role |-> "patient", user_id |-> p.id,
                                 user_name |-> p.full_name]]
                         /\ out' = [out EXCEPT ![s] = Shown("patient_login", "success")]
                  ELSE /\ out' = [out EXCEPT ![s] = Shown("patient_login", "invalid")]
                       /\ UNCHANGED session
    /\ UNCHANGED <<tables, confirm, pc, req, now, locked>>

(***************************************************************************)
(* doctor_register, "Register" clicked.                                    *)
(***************************************************************************)
PracticeLen == 13

DoctorRegister(s, first_name, surname, work, practice, password) ==
    /\ Idle(s) /\ LoggedOut(s)
    /\ IF Blank(first_name) \/ Blank(surname) \/ Blank(work) \/ Blank(practice)
             \/ Blank(password)
          THEN /\ out' = [out EXCEPT ![s] = Shown("doctor_register", "required")]
               /\ UNCHANGED <<doctors, seq, locked>>
       ELSE IF Len(Strip(practice)) # PracticeLen \/ ~AllDigits(Strip(practice))
          THEN /\ out' = [out EXCEPT ![s] = Shown("doctor_register", "practice")]
               /\ UNCHANGED <<doctors, seq, locked>>
       ELSE IF ~password_policy(password)
          THEN /\ out' = [out EXCEPT ![s] = Shown("doctor_register", "policy")]
               /\ UNCHANGED <<doctors, seq, locked>>
       ELSE IF locked
          THEN /\ out' = [out EXCEPT ![s] = Shown("doctor_register", "database")]
               /\ UNCHANGED <<doctors, seq, locked>>
       ELSE IF DoctorsUnique(doctors, Strip(practice))
          THEN /\ out' = [out EXCEPT ![s] = Shown("doctor_register", "registered")]
               /\ locked' = TRUE
               /\ UNCHANGED <<doctors, seq>>
       ELSE /\ doctors' = doctors \cup
                   {[id |-> NextId("doctors"), first_name |-> Strip(first_name),
                     surname |-> Strip(surname), place_of_work |-> Strip(work),
                     practice_number |-> Strip(practice),
                     password_hash |-> hash_password(password)]}
            /\ seq' = [seq EXCEPT !["doctors"] = NextId("doctors")]
            /\ out' = [out EXCEPT ![s] = Shown("doctor_register", "success")]
            /\ UNCHANGED locked
    /\ UNCHANGED <<patients, appointments, prescriptions, session, confirm, pc, req, now>>

(***************************************************************************)
(* doctor_login, "Login" clicked.                                          *)
(***************************************************************************)
DoctorLogin(s, practice, password) ==
    /\ Idle(s) /\ LoggedOut(s)
    /\ IF Blank(practice) \/ Blank(password)
          THEN /\ out' = [out EXCEPT ![s] = Shown("doctor_login", "required")]
               /\ UNCHANGED session
       ELSE LET data == {d \in doctors : d.practice_number = Strip(practice)}
            IN IF \E d \in data : check_password(password, d.password_hash)
                  THEN \E d \in data :
                         /\ session' = [session EXCEPT ![s] =
                                [role |-> "doctor", user_id |-> d.id,
                                 user_name |-> d.first_name]]
                         /\ out' = [out EXCEPT ![s] = Shown("doctor_login", "success")]
                  ELSE /\ out' = [out EXCEPT ![s] = Shown("doctor_login", "invalid")]
                       /\ UNCHANGED session
    /\ UNCHANGED <<tables, confirm, pc, req, now, locked>>

(***************************************************************************)
(* Queries of the dashboards.                                              *)
(***************************************************************************)
\* get_doctors(): SELECT * FROM doctors
get_doctors == doctors

\* f"{doc[0]} - Dr. {doc[1]} {doc[2]} ({doc[3]})"
OptionLabel(doc) ==
    Str(doc.id) \o <<" ", "-", " ", "D", "r", ".", " ">> \o doc.first_name \o <<" ">>
        \o doc.surname \o <<" ", "(">> \o doc.place_of_work \o <<")">>

\* The zero-based position of the option instead of the id in its label.
SelectedPosition(doctor) == ParseInt(SplitFirst(doctor, <<" ", "-", " ">>)) - 1

\* int(doctor.split(" - ")[0])
SelectedDoctorId(doctor) == ParseInt(SplitFirst(doctor, <<" ", "-", " ">>))

\* ORDER BY a.time DESC: the first row is one that no row's time exceeds,
\* the others follow in the same way; rows of equal time come in either
\* order.
RECURSIVE OrderByTimeDesc(_)
OrderByTimeDesc(rows) ==
    IF rows = {} THEN {<<>>}
    ELSE UNION {{<<a>> \o l : l \in OrderByTimeDesc(rows \ {a})} :
                   a \in {b \in rows : \A x \in rows : ~TextLess(b.time, x.time)}}

\* appointments a JOIN doctors d ON a.doctor_id = d.id WHERE a.patient_id = ?
PatientRows(user_id) ==
    {a \in appointments : a.patient_id = user_id /\ \E d \in doctors : d.id = a.doctor_id}

\* "My Appointments"
PatientAppointments(user_id) == OrderByTimeDesc(PatientRows(user_id))

\* appointments a JOIN patients p ON a.patient_id = p.id WHERE a.doctor_id = ?
DoctorRows(user_id) ==
    {a \in appointments : a.doctor_id = user_id /\ \E p \in patients : p.id = a.patient_id}

\* The appointments of the doctor dashboard.
DoctorAppointments(user_id) == OrderByTimeDesc(DoctorRows(user_id))

(***************************************************************************)
(* The confirmation checkbox of the danger zone.  Its widget state is      *)
(* "absent" while it is not on the page.                                   *)
(***************************************************************************)
\* The checkbox drawn on every run, outside the button's branch.
ConfirmRenderedAlways(deleteButton) == TRUE

\* st.checkbox(...) is called only inside `if st.button("Delete My ...")`.
ConfirmRendered(deleteButton) == deleteButton

\* The value st.checkbox returns in a run: the widget's state, unchecked
\* when the widget is new.
ConfirmValue(widget) == widget = "checked"

\* The widget state after a run: kept if the run drew the widget, dropped
\* otherwise.
ConfirmAfterRun(widget, deleteButton) ==
    IF ConfirmRendered(deleteButton)
       THEN (IF widget = "absent" THEN "unchecked" ELSE widget)
       ELSE "absent"

(***************************************************************************)
(* patient_dashboard, "Book Appointment" clicked.  The run is three steps  *)
(* for the sessions that run concurrently (BookStart, BookInsert,          *)
(* BookEnd), and BookAppointment is the three in one.                      *)
(***************************************************************************)
IsPatient(s) == session[s].role = "patient"

IsDoctor(s) == session[s].role = "doctor"

AppointmentRow(user_id, doc_id, time) ==
    [id |-> NextId("appointments"), patient_id |-> user_id, doctor_id |-> doc_id,
     time |-> time, status |-> "Scheduled"]

BookAppointment(s, doctor, date, time) ==
    /\ Idle(s) /\ IsPatient(s)
    /\ get_doctors # {}
    /\ doctor \in {OptionLabel(d) : d \in get_doctors}
    /\ date \in BookDates(now)
    /\ IF locked
          THEN /\ out' = [out EXCEPT ![s] = Shown("book", "error")]
               /\ UNCHANGED <<appointments, seq>>
          ELSE /\ Cardinality(appointments) < MaxAppointments
               /\ appointments' = appointments \cup
                      {AppointmentRow(session[s].user_id, SelectedDoctorId(doctor),
                                      DateTimeIso(date, time))}
               /\ seq' = [seq EXCEPT !["appointments"] = NextId("appointments")]
               /\ out' = [out EXCEPT ![s] = Shown("book", "success")]
    /\ confirm' = [confirm EXCEPT ![s] = ConfirmAfterRun(confirm[s], FALSE)]
    /\ UNCHANGED <<patients, doctors, prescriptions, session, pc, req, now, locked>>

\* Lines 225-234: the doctors are read, the widgets give doctor, date, time.
BookStart(s, doctor, date, time) ==
    /\ Idle(s) /\ IsPatient(s)
    /\ get_doctors # {}
    /\ doctor \in {OptionLabel(d) : d \in get_doctors}
    /\ date \in BookDates(now)
    /\ pc' = [pc EXCEPT ![s] = "book"]
    /\ req' = [req EXCEPT ![s] = [NoRequest EXCEPT !.doc_id = SelectedDoctorId(doctor),
                                                    !.time = DateTimeIso(date, time)]]
    /\ UNCHANGED <<tables, session, confirm, out, now, locked>>

\* Lines 238-246: INSERT, commit, st.success, or st.error when the INSERT
\* raises.
BookInsert(s) ==
    /\ pc[s] = "book"
    /\ IF locked
          THEN /\ out' = [out EXCEPT ![s] = Shown("book", "error")]
               /\ UNCHANGED <<appointments, seq>>
          ELSE /\ Cardinality(appointments) < MaxAppointments
               /\ appointments' = appointments \cup
                      {AppointmentRow(session[s].user_id, req[s].doc_id, req[s].time)}
               /\ seq' = [seq EXCEPT !["appointments"] = NextId("appointments")]
               /\ out' = [out EXCEPT ![s] = Shown("book", "success")]
    /\ pc' = [pc EXCEPT ![s] = "booked"]
    /\ UNCHANGED <<patients, doctors, prescriptions, session, confirm, req, now, locked>>

\* Lines 248-275: the listings are drawn and the run ends.
BookEnd(s) ==
    /\ pc[s] = "booked"
    /\ pc' = [pc EXCEPT ![s] = "idle"]
    /\ req' = [req EXCEPT ![s] = NoRequest]
    /\ confirm' = [confirm EXCEPT ![s] = ConfirmAfterRun(confirm[s], FALSE)]
    /\ UNCHANGED <<tables, session, out, now, locked>>

(***************************************************************************)
(* A run of a dashboard with no button clicked: the listings are drawn.    *)
(***************************************************************************)
View(s) ==
    /\ Idle(s) /\ ~LoggedOut(s)
    /\ out' = [out EXCEPT ![s] =
           IF IsPatient(s) /\ get_doctors = {} THEN Shown("view", "warning")
           ELSE Shown("view", "info")]
    /\ confirm' = [confirm EXCEPT ![s] = ConfirmAfterRun(confirm[s], FALSE)]
    /\ UNCHANGED <<tables, session, pc, req, now, locked>>

(***************************************************************************)
(* doctor_dashboard, "Prescribe" clicked at appointment appt.  The clock   *)
(* is read twice (lines 304 and 305); PrescribeStart ends after the first  *)
(* read.                                                                   *)
(***************************************************************************)
\* The first element of the row, appointment_id, taken for the patient.
PrescribedAppointmentId(appt) == appt.id

\* appointment_id, patient_id, patient_name, appointment_time = appt
PrescribedPatientId(appt) == appt.patient_id

PrescribeStart(s, appt, medication) ==
    /\ Idle(s) /\ IsDoctor(s)
    /\ appt \in DoctorRows(session[s].user_id)
    /\ IF Blank(medication)
          THEN /\ out' = [out EXCEPT ![s] = Shown("prescribe", "required")]
               /\ confirm' = [confirm EXCEPT ![s] = ConfirmAfterRun(confirm[s], FALSE)]
               /\ UNCHANGED <<pc, req>>
          ELSE /\ pc' = [pc EXCEPT ![s] = "prescribe"]
               /\ req' = [req EXCEPT ![s] =
                      [NoRequest EXCEPT !.patient_id = PrescribedPatientId(appt),
                                        !.medication = Strip(medication),
                                        !.today = DateIso(now.date)]]
               /\ UNCHANGED <<out, confirm>>
    /\ UNCHANGED <<tables, session, now, locked>>

\* Lines 305-314: the second clock read, INSERT, commit, st.success, or
\* st.error when the INSERT raises; the rest of the page is drawn and the
\* run ends.
PrescribeInsert(s) ==
    /\ pc[s] = "prescribe"
    /\ IF locked
          THEN /\ out' = [out EXCEPT ![s] = Shown("prescribe", "error")]
               /\ UNCHANGED <<prescriptions, seq>>
          ELSE /\ Cardinality(prescriptions) < MaxPrescriptions
               /\ prescriptions' = prescriptions \cup
                      {[id |-> NextId("prescriptions"),
                        patient_id |-> req[s].patient_id,
                        doctor_id |-> session[s].user_id,
                        medication |-> req[s].medication,
                        prescribed_on |-> req[s].today,
                        refill_due |-> DateIso(now.date + RefillDays)]}
               /\ seq' = [seq EXCEPT !["prescriptions"] = NextId("prescriptions")]
               /\ out' = [out EXCEPT ![s] = Shown("prescribe", "success")]
    /\ pc' = [pc EXCEPT ![s] = "idle"]
    /\ req' = [req EXCEPT ![s] = NoRequest]
    /\ confirm' = [confirm EXCEPT ![s] = ConfirmAfterRun(confirm[s], FALSE)]
    /\ UNCHANGED <<patients, doctors, appointments, session, now, locked>>

(***************************************************************************)
(* doctor_dashboard, danger zone.                                          *)
(***************************************************************************)
\* "Delete My Doctor Account" clicked.
DeleteClick(s) ==
    /\ Idle(s) /\ IsDoctor(s)
    /\ IF ConfirmRendered(TRUE) /\ ConfirmValue(confirm[s]) /\ locked
          THEN /\ out' = [out EXCEPT ![s] = Shown("delete", "exception")]
               /\ UNCHANGED <<doctors, session, confirm>>
       ELSE IF ConfirmRendered(TRUE) /\ ConfirmValue(confirm[s])
          THEN /\ doctors' = {d \in doctors : d.id # session[s].user_id}
               /\ session' = [session EXCEPT ![s] = NoSession]
               /\ confirm' = [confirm EXCEPT ![s] = "absent"]
               /\ out' = [out EXCEPT ![s] = Shown("delete", "success")]
          ELSE /\ confirm' = [confirm EXCEPT ![s] = ConfirmAfterRun(confirm[s], TRUE)]
               /\ out' = [out EXCEPT ![s] = Shown("delete", "none")]
               /\ UNCHANGED <<doctors, session>>
    /\ UNCHANGED <<patients, appointments, prescriptions, seq, pc, req, now, locked>>

\* The checkbox on the page is ticked or unticked; the script reruns with
\* the delete button reading False.
ConfirmToggle(s) ==
    /\ Idle(s) /\ IsDoctor(s)
    /\ confirm[s] # "absent"
    /\ LET toggled == IF confirm[s] = "checked" THEN "unchecked" ELSE "checked"
       IN confirm' = [confirm EXCEPT ![s] = ConfirmAfterRun(toggled, FALSE)]
    /\ out' = [out EXCEPT ![s] = Shown("confirm", "none")]
    /\ UNCHANGED <<tables, session, pc, req, now, locked>>

(***************************************************************************)
(* main, "Logout" clicked: the dashboard is drawn, then the session state  *)
(* is cleared and the script reruns logged out.                            *)
(***************************************************************************)
Logout(s) ==
    /\ Idle(s) /\ ~LoggedOut(s)
    /\ session' = [session EXCEPT ![s] = NoSession]
    /\ confirm' = [confirm EXCEPT ![s] = "absent"]
    /\ out' = [out EXCEPT ![s] = Shown("logout", "none")]
    /\ UNCHANGED <<tables, pc, req, now, locked>>

(***************************************************************************)
(* Every script run opens its own connection (line 40) and never closes    *)
(* it.  The run whose INSERT raised IntegrityError leaves its transaction  *)
(* open, so its connection keeps the write lock of the database file       *)
(* until the interpreter collects the connection: meanwhile the INSERT and *)
(* DELETE statements of every other run raise "database is locked".        *)
(***************************************************************************)
Collect ==
    /\ locked
    /\ locked' = FALSE
    /\ UNCHANGED <<tables, session, confirm, pc, req, out, now>>

\* Time passes.
Tick ==
    /\ Ticks(now) < MaxTicks
    /\ now' = NextInstant(now)
    /\ UNCHANGED <<tables, session, confirm, pc, req, out, locked>>

(***************************************************************************)
(* One browser session, from the empty database.                           *)
(***************************************************************************)
User == {"s1"}

Next ==
    \/ \E s \in User, f \in PatientForms : PatientRegister(s, f[1], f[2], f[3])
    \/ \E s \in User, f \in PatientLogins : PatientLogin(s, f[1], f[2])
    \/ \E s \in User, f \in DoctorForms : DoctorRegister(s, f[1], f[2], f[3], f[4], f[5])
    \/ \E s \in User, f \in DoctorLogins : DoctorLogin(s, f[1], f[2])
    \/ \E s \in User, d \in doctors, date \in BookDates(now), time \in BookTimes :
          BookAppointment(s, OptionLabel(d), date, time)
    \/ \E s \in User : View(s)
    \/ \E s \in User, appt \in appointments, medication \in Medications :
          PrescribeStart(s, appt, medication)
    \/ \E s \in User : PrescribeInsert(s)
    \/ \E s \in User : DeleteClick(s)
    \/ \E s \in User : ConfirmToggle(s)
    \/ \E s \in User : Logout(s)
    \/ Collect
    \/ Tick

Spec == Init /\ [][Next]_vars

(***************************************************************************)
(* Two browser sessions of logged-in patients booking concurrently.  The   *)
(* start is the database after the registrations of two patients and one   *)
(* doctor, and the two logins.                                             *)
(***************************************************************************)
RacePatients ==
    {[id |-> 1, full_name |-> <<"a", "b">>, id_number |-> <<"7">>,
      password_hash |-> hash_password(GoodPassword)],
     [id |-> 2, full_name |-> <<"a", "b">>, id_number |-> <<"8">>,
      password_hash |-> hash_password(GoodPassword)]}

RaceDoctors ==
    {[id |-> 1, first_name |-> <<"a", "b">>, surname |-> <<"c">>,
      place_of_work |-> <<"d">>, practice_number |-> GoodPractice,
      password_hash |-> hash_password(GoodPassword)]}

InitRace ==
    /\ patients = RacePatients
    /\ doctors = RaceDoctors
    /\ appointments = {}
    /\ prescriptions = {}
    /\ seq = [t \in {"patients", "doctors", "appointments", "prescriptions"} |->
                 IF t = "patients" THEN 2 ELSE IF t = "doctors" THEN 1 ELSE 0]
    /\ session \in [Sessions -> {[role |-> "patient", user_id |-> p.id,
                                  user_name |-> p.full_name] : p \in RacePatients}]
    /\ confirm = [s \in Sessions |-> "absent"]
    /\ pc = [s \in Sessions |-> "idle"]
    /\ req = [s \in Sessions |-> NoRequest]
    /\ out = [s \in Sessions |-> Shown("patient_login", "success")]
    /\ now = [date |-> StartDay, hm |-> <<23, 59>>]
    /\ locked \in BOOLEAN

NextRace ==
    \/ \E s \in Sessions, d \in doctors, date \in BookDates(now), time \in BookTimes :
          BookStart(s, OptionLabel(d), date, time)
    \/ \E s \in Sessions : BookInsert(s)
    \/ \E s \in Sessions : BookEnd(s)
    \/ Collect
    \/ Tick

SpecRace == InitRace /\ [][NextRace]_vars

(***************************************************************************)
(* Reading stored texts back, for the properties.                          *)
(***************************************************************************)
RECURSIVE NumbersFrom(_, _, _, _)
NumbersFrom(t, i, run, inRun) ==
    IF i > Len(t) THEN (IF inRun THEN <<run>> ELSE <<>>)
    ELSE IF IsDigit(t[i]) THEN NumbersFrom(t, i + 1, 10 * run + DigitValue(t[i]), TRUE)
    ELSE (IF inRun THEN <<run>> ELSE <<>>) \o NumbersFrom(t, i + 1, 0, FALSE)

\* The numbers written in a text, in order: its maximal runs of digits.
Numbers(t) == NumbersFrom(t, 1, 0, FALSE)

RECURSIVE DaysBeforeYear(_)
DaysBeforeYear(y) == IF y <= 2025 THEN 0 ELSE DaysInYear(y - 1) + DaysBeforeYear(y - 1)

RECURSIVE DaysBeforeMonth(_, _)
DaysBeforeMonth(y, m) == IF m <= 1 THEN 0
                         ELSE DaysInMonth(y, m - 1) + DaysBeforeMonth(y, m - 1)

DayOfNumbers(n) == DaysBeforeYear(n[1]) + DaysBeforeMonth(n[1], n[2]) + n[3] - 1

\* The day ordinal of a date text YYYY-MM-DD.
DayOfText(t) == DayOfNumbers(Numbers(t))

\* The minute, counted from 2025-01-01T00:00, of a date-time text.
MinuteOfText(t) ==
    LET n == Numbers(t)
    IN DayOfNumbers(n) * 1440 + n[4] * 60 + n[5]

MinuteOfClock(clock) == clock.date * 1440 + clock.hm[1] * 60 + clock.hm[2]

(***************************************************************************)
(* Properties.                                                             *)
(***************************************************************************)
Ascending(l) ==
    LET m == [i \in 1..Len(l) |-> MinuteOfText(l[i].time)]
    IN \A i, j \in 1..Len(l) : i < j => m[i] <= m[j]

Rows(l) == {l[i] : i \in 1..Len(l)}

\* The listing a logged-in session's dashboard draws.
Listings(s) ==
    IF IsPatient(s) THEN PatientAppointments(session[s].user_id)
    ELSE DoctorAppointments(session[s].user_id)

OwnAppointments(s) ==
    {a \in appointments :
        IF IsPatient(s) THEN a.patient_id = session[s].user_id
        ELSE a.doctor_id = session[s].user_id}

\* C1: for one doctor, no two appointments with status Scheduled have the
\* same time.
NoOverlappingScheduled ==
    \A a, b \in appointments :
        (a # b /\ a.doctor_id = b.doctor_id /\ a.status = "Scheduled"
             /\ b.status = "Scheduled") => a.time # b.time

\* C2: two booking runs for the same doctor and time that are under way
\* together never both insert and report success.
OneRacerRejected ==
    \A s, t \in Sessions :
        (s # t /\ req[s].doc_id = req[t].doc_id /\ req[s].time = req[t].time)
            => ~(pc[s] = "booked" /\ pc[t] = "booked"
                   /\ out[s] = Shown("book", "success") /\ out[t] = Shown("book", "success"))

\* C3: no appointment is stored whose time precedes the moment it is booked.
NoAppointmentInThePast ==
    [][\A a \in appointments' \ appointments :
           MinuteOfText(a.time) >= MinuteOfClock(now)]_vars

\* C4: every appointment's doctor_id is the id of a doctors row, and no step
\* removes a doctors row that an appointment refers to.
AppointmentsKeepTheirDoctor ==
    /\ [](\A a \in appointments : \E d \in doctors : d.id = a.doctor_id)
    /\ [][\A d \in doctors \ doctors' :
              ~\E a \in appointments : a.doctor_id = d.id]_vars

\* C4 witness: a doctor with an appointment has clicked "Delete My Doctor
\* Account".
DeleteClickedWithAppointment ==
    \E s \in Sessions :
        /\ IsDoctor(s)
        /\ out[s] = Shown("delete", "none")
        /\ \E a \in appointments : a.doctor_id = session[s].user_id

\* C5: every prescription has an appointment of the same patient and doctor;
\* a new prescription carries the id of the logged-in doctor who pressed
\* Prescribe; no step changes or removes a prescription.
PrescriptionsFollowAppointments ==
    /\ [](\A p \in prescriptions : \E a \in appointments :
             a.patient_id = p.patient_id /\ a.doctor_id = p.doctor_id)
    /\ [][/\ prescriptions \subseteq prescriptions'
          /\ \A p \in prescriptions' \ prescriptions :
                \E s \in Sessions :
                    /\ IsDoctor(s) /\ pc[s] = "prescribe"
                    /\ p.doctor_id = session[s].user_id]_vars

\* C5 witness: a prescription is stored while a second patient exists.
PrescriptionStored ==
    /\ prescriptions # {}
    /\ Cardinality(patients) > 1

\* C6, as stated: every listing is in ascending order of time.
ListingsAscending ==
    \A s \in Sessions : ~LoggedOut(s) => \A l \in Listings(s) : Ascending(l)

\* C6, amended: every listing holds the user's appointments in descending
\* order of time, and drawing it changes no table and no session state.
ListingsDescending ==
    /\ [](\A s \in Sessions : ~LoggedOut(s) =>
             LET ls == Listings(s)
                 own == OwnAppointments(s)
                 minutes == {<<a, MinuteOfText(a.time)>> : a \in own}
                 later == {<<p[1], q[1]>> :
                              <<p, q>> \in {pq \in minutes \X minutes : pq[1][2] > pq[2][2]}}
             IN /\ ls # {}
                /\ \A l \in ls :
                      /\ Rows(l) = own
                      /\ \A i, j \in 1..Len(l) : i < j => <<l[j], l[i]>> \notin later)
    /\ [][\A s \in Sessions :
            (out'[s].op = "view" /\ View(s)) => UNCHANGED <<tables, session>>]_vars

\* C6 witness: a dashboard was drawn whose listing has two appointments of
\* different times.
ListingOfTwoDrawn ==
    \E s \in Sessions :
        /\ out[s] = Shown("view", "info")
        /\ \E l \in Listings(s) : Len(l) >= 2 /\ l[1].time # l[2].time

\* C7: refill_due is prescribed_on plus 30 days.
RefillThirtyDaysAfter ==
    \A p \in prescriptions : DayOfText(p.refill_due) = DayOfText(p.prescribed_on) + RefillDays

\* C8: id_number and practice_number are unique, and a registration with a
\* credential that is already registered shows an error and changes neither
\* the patients and doctors tables nor the session.
CredentialsUnique ==
    /\ [](/\ \A p, q \in patients : p.id_number = q.id_number => p = q
          /\ \A d, e \in doctors : d.practice_number = e.practice_number => d = e)
    /\ [][\A s \in Sessions :
            /\ out'[s].op = "patient_register" =>
                 \A f \in PatientForms :
                    (/\ \E p \in patients : p.id_number = Strip(f[2])
                     /\ PatientRegister(s, f[1], f[2], f[3]))
                    => (/\ out'[s].kind \in {"required", "policy", "registered", "database"}
                        /\ UNCHANGED <<patients, doctors, session>>)
            /\ out'[s].op = "doctor_register" =>
                 \A f \in DoctorForms :
                    (/\ \E d \in doctors : d.practice_number = Strip(f[4])
                     /\ DoctorRegister(s, f[1], f[2], f[3], f[4], f[5]))
                    => (/\ out'[s].kind \in {"required", "practice", "policy", "registered",
                                              "database"}
                        /\ UNCHANGED <<patients, doctors, session>>)]_vars

\* C8 witness: a registration was refused because the ID number is taken.
DuplicateRefused ==
    \E s \in Sessions : out[s] = Shown("patient_register", "registered")

\* C9: a role is held for a row of the matching table; it is set only by a
\* login whose password hashes to the row's password_hash; a login with
\* empty fields, unknown credential or wrong password leaves no role; rows
\* are booked and prescribed only by sessions with a role; Logout leaves no
\* role.
RoleOnlyByLogin ==
    /\ [](\A s \in Sessions :
             /\ IsPatient(s) => \E p \in patients :
                    p.id = session[s].user_id /\ p.full_name = session[s].user_name
             /\ IsDoctor(s) => \E d \in doctors :
                    d.id = session[s].user_id /\ d.first_name = session[s].user_name
             /\ session[s].role \in {"none", "patient", "doctor"})
    /\ [][\A s \in Sessions :
            /\ \A f \in PatientLogins :
                 (/\ out'[s].op = "patient_login"
                  /\ PatientLogin(s, f[1], f[2])
                  /\ ~\E p \in patients :
                        /\ p.id_number = Strip(f[1])
                        /\ p.password_hash = hash_password(f[2]))
                 => LoggedOut(s)'
            /\ \A f \in DoctorLogins :
                 (/\ out'[s].op = "doctor_login"
                  /\ DoctorLogin(s, f[1], f[2])
                  /\ ~\E d \in doctors :
                        /\ d.practice_number = Strip(f[1])
                        /\ d.password_hash = hash_password(f[2]))
                 => LoggedOut(s)'
            /\ (session'[s] # session[s] /\ ~LoggedOut(s)')
                 => (/\ LoggedOut(s)
                     /\ out'[s] \in {Shown("patient_login", "success"),
                                     Shown("doctor_login", "success")}
                     /\ out'[s].op = "patient_login" <=> IsPatient(s)')
            /\ Logout(s) => LoggedOut(s)'
            /\ (appointments' # appointments) => \E t \in Sessions : IsPatient(t)
            /\ (prescriptions' # prescriptions) => \E t \in Sessions : IsDoctor(t)
            /\ (out'[s] # out[s] /\ out'[s].op \in {"book", "view", "prescribe",
                                                    "delete", "confirm", "logout"})
                 => ~LoggedOut(s)]_vars

\* C9 witness: a login has just made the session a patient's.
LoggedInAsPatient ==
    \E s \in Sessions : IsPatient(s) /\ out[s] = Shown("patient_login", "success")

\* C10: no step removes a doctors row, and no run ends in the deletion of
\* the account.
DeleteNeverReached ==
    [][/\ doctors \subseteq doctors'
       /\ \A s \in Sessions : out'[s] # Shown("delete", "success")]_vars

\* C10 witness: the confirmation checkbox, drawn by a click on the delete
\* button, was ticked.
ConfirmTicked ==
    \E s \in Sessions : IsDoctor(s) /\ out[s] = Shown("confirm", "none")

====
